---- MODULE Spec2Model ----
(***************************************************************************)
(* patch_surya.py: read surya/model/ordering/decoder.py from the first     *)
(* site-packages directory, apply two literal str.replace rules, write the *)
(* text back to the same path and print a confirmation line.               *)
(*                                                                         *)
(* The state is the target file (existence, permissions, text), the        *)
(* interpreter's site-packages list, and for each invocation of the        *)
(* script its position, its decoder_path and content variables and its     *)
(* standard output.  Text is modelled by TLA+ strings, so str.replace is   *)
(* computed on the real literals of the script.                            *)
(***************************************************************************)
EXTENDS Integers, Sequences, FiniteSets, TLC

VARIABLES
    sitepackages,   \* site.getsitepackages(): a sequence of directories
    fs,             \* the file at the target path: [exists, readable, writable, data]
    pc,             \* pc[p]: the statement invocation p executes next
    decoder_path,   \* decoder_path[p]
    content,        \* content[p]
    stdout,         \* stdout[p]: the lines invocation p has printed
    runs,           \* number of the run in progress (runs in succession)
    before,         \* before[k]: the file as it was when run k started
    torn            \* torn[p]: p read the file while another invocation had
                    \* it open for writing, truncated and not yet written

vars == <<sitepackages, fs, pc, decoder_path, content, stdout, runs, before, torn>>

-----------------------------------------------------------------------------
(* Bounds of the model *)

\* longest input text, counted in pieces of Pieces, for runs in succession
MaxPieces == 2

\* longest input text, in pieces, for two concurrent invocations
MaxPiecesC == 2

\* how many times the script is run in succession
MaxRuns == 2

-----------------------------------------------------------------------------
(* The literals of the script *)

old_self_attn == "self.self_attn = MBART_ATTENTION_CLASSES[config._attn_implementation]("

\* the replacement forgets to switch the index to impl
new_self_attn_keeps_index == "impl = config._attn_implementation if config._attn_implementation in MBART_ATTENTION_CLASSES else 'eager'; self.self_attn = MBART_ATTENTION_CLASSES[config._attn_implementation]("

\* the replacement text of the other rule's attribute is pasted in, unpatched
new_self_attn_pasted == "impl = config._attn_implementation if config._attn_implementation in MBART_ATTENTION_CLASSES else 'eager'; self.encoder_attn = MBART_ATTENTION_CLASSES[config._attn_implementation]("

new_self_attn == "impl = config._attn_implementation if config._attn_implementation in MBART_ATTENTION_CLASSES else 'eager'; self.self_attn = MBART_ATTENTION_CLASSES[impl]("

\* the replacement forgets to switch the index to impl
new_encoder_attn_keeps_index == "impl = config._attn_implementation if config._attn_implementation in MBART_ATTENTION_CLASSES else 'eager'; self.encoder_attn = MBART_ATTENTION_CLASSES[config._attn_implementation]("

old_encoder_attn == "self.encoder_attn = MBART_ATTENTION_CLASSES[config._attn_implementation]("

new_encoder_attn == "impl = config._attn_implementation if config._attn_implementation in MBART_ATTENTION_CLASSES else 'eager'; self.encoder_attn = MBART_ATTENTION_CLASSES[impl]("

RelPath == "surya/model/ordering/decoder.py"

-----------------------------------------------------------------------------
(* Library functions the script calls *)

\* s[i:j] with 1-based inclusive bounds; empty when j < i
Slice(s, i, j) == IF j < i THEN "" ELSE SubSeq(s, i, j)

\* str.find(pat) + 1: position of the leftmost occurrence of pat in s, 0 if none
Find(s, pat) ==
    LET hits == {i \in 1..(Len(s) - Len(pat) + 1) : Slice(s, i, i + Len(pat) - 1) = pat}
    IN  IF hits = {} THEN 0 ELSE CHOOSE i \in hits : \A j \in hits : i <= j

RECURSIVE ReplaceFrom(_, _, _)
\* str.replace(old, new): left to right, every non-overlapping occurrence
ReplaceFrom(s, old, new) ==
    IF old = ""
    THEN IF s = "" THEN new
         ELSE new \o Slice(s, 1, 1) \o ReplaceFrom(Slice(s, 2, Len(s)), old, new)
    ELSE LET i == Find(s, old)
         IN  IF i = 0 THEN s
             ELSE Slice(s, 1, i - 1) \o new
                  \o ReplaceFrom(Slice(s, i + Len(old), Len(s)), old, new)

\* str.replace(old, new, 1): only the leftmost occurrence
ReplaceFirst(s, old, new) ==
    LET i == Find(s, old)
    IN  IF i = 0 THEN s
        ELSE Slice(s, 1, i - 1) \o new \o Slice(s, i + Len(old), Len(s))

Replace(s, old, new) == ReplaceFrom(s, old, new)

\* os.path.join(a, b) on POSIX
Join(a, b) ==
    IF Len(b) > 0 /\ Slice(b, 1, 1) = "/" THEN b
    ELSE IF a = "" \/ Slice(a, Len(a), Len(a)) = "/" THEN a \o b
    ELSE a \o "/" \o b

\* the file is open with O_APPEND: every write lands at the end of the file
WriteAtEnd(data, text) == data \o text

\* the bytes of a file after write(2) of text at offset 0
WriteAt0(data, text) == text \o Slice(data, Len(text) + 1, Len(data))

-----------------------------------------------------------------------------
(* Inputs *)

Procs == {1, 2}

Pieces ==
    { "foo ", "bar", "self.",
      "encoder_attn = MBART_ATTENTION_CLASSES[config._attn_implementation](",
      old_self_attn, old_encoder_attn, new_self_attn, new_encoder_attn }

\* the input of the scenario of the documentation
Scenario == "foo self.self_attn = MBART_ATTENTION_CLASSES[config._attn_implementation](bar"

\* a fixture with each pattern duplicated
Duplicated == old_self_attn \o old_encoder_attn \o "foo " \o old_self_attn \o old_encoder_attn

Fixtures == {Scenario, Duplicated}

RECURSIVE Concats(_)
Concats(n) ==
    IF n = 0 THEN {""}
    ELSE LET shorter == Concats(n - 1)
         IN  shorter \cup {c \o x : c \in shorter, x \in Pieces}

SitePackageLists ==
    { <<>>,
      <<"/usr/lib/python3/site-packages">>,
      <<"/venv/lib/site-packages/", "/usr/lib/python3/site-packages">> }

Files(texts) ==
    [exists : {TRUE}, readable : BOOLEAN, writable : BOOLEAN, data : texts]
    \cup {[exists |-> FALSE, readable |-> FALSE, writable |-> FALSE, data |-> ""]}

InitOver(ps, texts) ==
    /\ sitepackages \in SitePackageLists
    /\ fs \in Files(texts)
    /\ pc = [p \in ps |-> "start"]
    /\ decoder_path = [p \in ps |-> ""]
    /\ content = [p \in ps |-> ""]
    /\ stdout = [p \in ps |-> <<>>]
    /\ runs = 1
    /\ before = <<fs>>
    /\ torn = [p \in ps |-> FALSE]

Init == InitOver({1}, Concats(MaxPieces) \cup Fixtures)

InitC == InitOver(Procs, Concats(MaxPiecesC) \cup Fixtures)

-----------------------------------------------------------------------------
(* The statements of the script *)

\* line 27: the f-string; U+2713 CHECK MARK is written as its escape, the
\* module being ASCII
Confirmation(path) == "\\u2713 Patched " \o path

\* line 9, when site.getsitepackages() is not empty
ResolvePath(p) ==
    /\ pc[p] = "start"
    /\ Len(sitepackages) >= 1
    /\ decoder_path' = [decoder_path EXCEPT ![p] = Join(sitepackages[1], RelPath)]
    /\ pc' = [pc EXCEPT ![p] = "read"]
    /\ UNCHANGED <<sitepackages, fs, content, stdout, runs, before, torn>>

\* line 9, IndexError on an empty list
ResolveFail(p) ==
    /\ pc[p] = "start"
    /\ Len(sitepackages) = 0
    /\ pc' = [pc EXCEPT ![p] = "failed"]
    /\ UNCHANGED <<sitepackages, fs, decoder_path, content, stdout, runs, before, torn>>

\* lines 11-12
Read(p) ==
    /\ pc[p] = "read"
    /\ fs.exists /\ fs.readable
    /\ content' = [content EXCEPT ![p] = fs.data]
    /\ torn' = [torn EXCEPT ![p] = \E q \in DOMAIN pc \ {p} : pc[q] = "write"]
    /\ pc' = [pc EXCEPT ![p] = "replace_self_attn"]
    /\ UNCHANGED <<sitepackages, fs, decoder_path, stdout, runs, before>>

\* a missing file is read as empty text instead of raising
ReadFailSwallowed(p) ==
    /\ pc[p] = "read"
    /\ ~(fs.exists /\ fs.readable)
    /\ content' = [content EXCEPT ![p] = ""]
    /\ pc' = [pc EXCEPT ![p] = "replace_self_attn"]
    /\ UNCHANGED <<sitepackages, fs, decoder_path, stdout, runs, before, torn>>

\* line 11, FileNotFoundError or PermissionError
ReadFail(p) ==
    /\ pc[p] = "read"
    /\ ~(fs.exists /\ fs.readable)
    /\ pc' = [pc EXCEPT ![p] = "failed"]
    /\ UNCHANGED <<sitepackages, fs, decoder_path, content, stdout, runs, before, torn>>

\* line 17
ReplaceSelfAttn(p) ==
    /\ pc[p] = "replace_self_attn"
    /\ content' = [content EXCEPT ![p] = Replace(content[p], old_self_attn, new_self_attn)]
    /\ pc' = [pc EXCEPT ![p] = "replace_encoder_attn"]
    /\ UNCHANGED <<sitepackages, fs, decoder_path, stdout, runs, before, torn>>

\* the rule raises when its pattern is not found
ReplaceEncoderAttnStrict(p) ==
    /\ pc[p] = "replace_encoder_attn"
    /\ content' = [content EXCEPT ![p] = Replace(content[p], old_encoder_attn, new_encoder_attn)]
    /\ pc' = [pc EXCEPT ![p] =
                IF Find(content[p], old_encoder_attn) = 0 THEN "failed" ELSE "open_w"]
    /\ UNCHANGED <<sitepackages, fs, decoder_path, stdout, runs, before, torn>>

\* the result of str.replace is dropped: content is not assigned
ReplaceEncoderAttnDiscarded(p) ==
    /\ pc[p] = "replace_encoder_attn"
    /\ pc' = [pc EXCEPT ![p] = "open_w"]
    /\ UNCHANGED <<sitepackages, fs, decoder_path, content, stdout, runs, before, torn>>

\* line 22
ReplaceEncoderAttn(p) ==
    /\ pc[p] = "replace_encoder_attn"
    /\ content' = [content EXCEPT ![p] = Replace(content[p], old_encoder_attn, new_encoder_attn)]
    /\ pc' = [pc EXCEPT ![p] = "open_w"]
    /\ UNCHANGED <<sitepackages, fs, decoder_path, stdout, runs, before, torn>>

\* line 24: open(decoder_path, 'w') creates or truncates the file
OpenWrite(p) ==
    /\ pc[p] = "open_w"
    /\ fs.exists => fs.writable
    /\ fs' = IF fs.exists THEN [fs EXCEPT !.data = ""]
             ELSE [exists |-> TRUE, readable |-> TRUE, writable |-> TRUE, data |-> ""]
    /\ pc' = [pc EXCEPT ![p] = "write"]
    /\ UNCHANGED <<sitepackages, decoder_path, content, stdout, runs, before, torn>>

\* the error of open(decoder_path, 'w') is caught and the script goes on
OpenWriteFailIgnored(p) ==
    /\ pc[p] = "open_w"
    /\ fs.exists /\ ~fs.writable
    /\ pc' = [pc EXCEPT ![p] = "print"]
    /\ UNCHANGED <<sitepackages, fs, decoder_path, content, stdout, runs, before, torn>>

\* line 24, PermissionError
OpenWriteFail(p) ==
    /\ pc[p] = "open_w"
    /\ fs.exists /\ ~fs.writable
    /\ pc' = [pc EXCEPT ![p] = "failed"]
    /\ UNCHANGED <<sitepackages, fs, decoder_path, content, stdout, runs, before, torn>>

\* the text is written with print(content, file=f): a newline follows it
WriteWithNewline(p) ==
    /\ pc[p] = "write"
    /\ fs' = [fs EXCEPT !.data = WriteAt0(fs.data, content[p] \o "\n")]
    /\ pc' = [pc EXCEPT ![p] = "print"]
    /\ UNCHANGED <<sitepackages, decoder_path, content, stdout, runs, before, torn>>

\* line 25 and the close at the end of the with block
Write(p) ==
    /\ pc[p] = "write"
    /\ fs' = [fs EXCEPT !.data = WriteAt0(fs.data, content[p])]
    /\ pc' = [pc EXCEPT ![p] = "print"]
    /\ UNCHANGED <<sitepackages, decoder_path, content, stdout, runs, before, torn>>

\* line 27
PrintDone(p) ==
    /\ pc[p] = "print"
    /\ stdout' = [stdout EXCEPT ![p] = Append(stdout[p], Confirmation(decoder_path[p]))]
    /\ pc' = [pc EXCEPT ![p] = "done"]
    /\ UNCHANGED <<sitepackages, fs, decoder_path, content, torn, runs, before>>

\* the script is started again after it completed
Rerun ==
    /\ pc[1] = "done"
    /\ runs < MaxRuns
    /\ runs' = runs + 1
    /\ before' = Append(before, fs)
    /\ pc' = [pc EXCEPT ![1] = "start"]
    /\ decoder_path' = [decoder_path EXCEPT ![1] = ""]
    /\ content' = [content EXCEPT ![1] = ""]
    /\ UNCHANGED <<sitepackages, fs, stdout, torn>>

Step(p) ==
    \/ ResolvePath(p)
    \/ ResolveFail(p)
    \/ Read(p)
    \/ ReadFail(p)
    \/ ReplaceSelfAttn(p)
    \/ ReplaceEncoderAttn(p)
    \/ OpenWrite(p)
    \/ OpenWriteFail(p)
    \/ Write(p)
    \/ PrintDone(p)

Next == Step(1) \/ Rerun

NextC == \E p \in Procs : Step(p)

\* runs of the script one after the other
Spec == Init /\ [][Next]_vars

\* two invocations of the script at once on the same file
SpecC == InitC /\ [][NextC]_vars

-----------------------------------------------------------------------------
(* Vocabulary of the properties *)

\* the positions at which pat occurs in s
Occ(s, pat) == {i \in 1..(Len(s) - Len(pat) + 1) : Slice(s, i, i + Len(pat) - 1) = pat}

Count(s, pat) == Cardinality(Occ(s, pat))

\* the only member of a singleton set
The(S) == CHOOSE x \in S : TRUE

\* s with the Len(old) characters at position i replaced by new
SpliceAt(s, i, old, new) == Slice(s, 1, i - 1) \o new \o Slice(s, i + Len(old), Len(s))

\* the file when the run in progress started, and when the first run started
Cur == before[runs]
Orig == before[1]

\* a whole run of the script on text c
Patch(c) == Replace(Replace(c, old_self_attn, new_self_attn), old_encoder_attn, new_encoder_attn)

Completed == pc[1] = "done"

AllDone == \A p \in DOMAIN pc : pc[p] = "done"

PastRead(p) == pc[p] \in {"replace_self_attn", "replace_encoder_attn", "open_w", "write", "print", "done"}

ScenarioOutput == "foo impl = config._attn_implementation if config._attn_implementation in MBART_ATTENTION_CLASSES else 'eager'; self.self_attn = MBART_ATTENTION_CLASSES[impl](bar"

-----------------------------------------------------------------------------
(* C1: when the text holds each old substring exactly once, a completed run
   leaves the text with the self_attn occurrence replaced by new_self_attn,
   the encoder_attn occurrence replaced by new_encoder_attn, and every
   character before, between and after the two sites as it was, in order;
   the scenario input gives the scenario output. *)
C1_BothOnceReplaced ==
    Completed =>
        /\ (Count(Cur.data, old_self_attn) = 1 /\ Count(Cur.data, old_encoder_attn) = 1) =>
              LET c == Cur.data
                  i == The(Occ(c, old_self_attn))
                  j == The(Occ(c, old_encoder_attn))
              IN  fs.data =
                     IF i < j
                     THEN SpliceAt(SpliceAt(c, j, old_encoder_attn, new_encoder_attn),
                                   i, old_self_attn, new_self_attn)
                     ELSE SpliceAt(SpliceAt(c, i, old_self_attn, new_self_attn),
                                   j, old_encoder_attn, new_encoder_attn)
        /\ Cur.data = Scenario => fs.data = ScenarioOutput

C1_Witness ==
    /\ Completed
    /\ Count(Cur.data, old_self_attn) = 1
    /\ Count(Cur.data, old_encoder_attn) = 1
    /\ fs.data # Cur.data

(* C2: a second run in succession reads the text the first run wrote, finds
   neither old substring in it, and writes it back unchanged, so the file
   after two runs is the file after one. *)
C2_SecondRunNoOp ==
    runs >= 2 =>
        /\ PastRead(1) =>
              /\ Occ(content[1], old_self_attn) = {}
              /\ Occ(content[1], old_encoder_attn) = {}
              /\ content[1] = Cur.data
        /\ pc[1] \in {"print", "done"} => fs = Cur

C2_Witness ==
    /\ runs = 2
    /\ Completed
    /\ Orig.data # Cur.data
    /\ fs.data = Cur.data

(* C3: when the text holds neither old substring, a completed run leaves the
   file exactly as it was. *)
C3_NeitherUnchanged ==
    (Completed /\ Occ(Cur.data, old_self_attn) = {} /\ Occ(Cur.data, old_encoder_attn) = {})
        => fs = Cur

C3_Witness ==
    /\ Completed
    /\ runs = 1
    /\ Occ(Cur.data, old_self_attn) = {}
    /\ Occ(Cur.data, old_encoder_attn) = {}
    /\ Len(Cur.data) > 0

(* C4: when the target path does not exist, the run never gets past the read
   step: the file is never opened for writing, nothing is written or printed,
   and the path still does not exist. *)
C4_MissingFileNoWrite ==
    ~Orig.exists =>
        /\ pc[1] \in {"start", "read", "failed"}
        /\ fs = Orig
        /\ stdout[1] = <<>>

C4_Witness ==
    /\ ~Orig.exists
    /\ pc[1] = "failed"
    /\ decoder_path[1] # ""

(* C5: for each of the two rules, every occurrence of the old substring is
   replaced in one run: none is left, each one has become an occurrence of
   the new text, and the text has grown by the difference of the lengths
   once per occurrence. *)
C5_AllOccurrencesReplaced ==
    Completed =>
        LET c == Cur.data
            ks == Count(c, old_self_attn)
            ke == Count(c, old_encoder_attn)
        IN  /\ Occ(fs.data, old_self_attn) = {}
            /\ Occ(fs.data, old_encoder_attn) = {}
            /\ Count(fs.data, new_self_attn) = Count(c, new_self_attn) + ks
            /\ Count(fs.data, new_encoder_attn) = Count(c, new_encoder_attn) + ke
            /\ Len(fs.data) = Len(c) + ks * (Len(new_self_attn) - Len(old_self_attn))
                                     + ke * (Len(new_encoder_attn) - Len(old_encoder_attn))

C5_Witness ==
    /\ Completed
    /\ Count(Cur.data, old_self_attn) >= 2
    /\ Count(Cur.data, old_encoder_attn) >= 2

(* C6: a text without the old substrings is no error: when the path resolves
   and the file exists, readable and writable, with neither old substring in
   it, the run never fails, can always take its next step until it is done,
   and once done has written the file back as it was and printed the
   confirmation line every completed run prints. *)
C6_AbsenceIsNotAnError ==
    /\ ( /\ Len(sitepackages) >= 1
         /\ Cur.exists /\ Cur.readable /\ Cur.writable
         /\ Occ(Cur.data, old_self_attn) = {}
         /\ Occ(Cur.data, old_encoder_attn) = {} ) =>
            /\ pc[1] # "failed"
            /\ ~Completed => ENABLED Step(1)
            /\ pc[1] = "print" => fs.data = content[1] /\ content[1] = Cur.data
            /\ Completed => fs = Cur /\ Len(stdout[1]) = runs
    /\ Completed =>
            stdout[1][runs] = Confirmation(Join(sitepackages[1], RelPath))

C6_Witness ==
    /\ Completed
    /\ runs = 1
    /\ Occ(Orig.data, old_self_attn) = {}
    /\ Occ(Orig.data, old_encoder_attn) = {}
    /\ Orig.data # ""
    /\ stdout[1] = <<Confirmation(decoder_path[1])>>

\* the order of the statements of one run, with the exits by an exception
StatementOrder ==
    { <<"start", "read">>, <<"read", "replace_self_attn">>,
      <<"replace_self_attn", "replace_encoder_attn">>,
      <<"replace_encoder_attn", "open_w">>, <<"open_w", "write">>,
      <<"write", "print">>, <<"print", "done">>,
      <<"start", "failed">>, <<"read", "failed">>, <<"open_w", "failed">>,
      <<"done", "start">> }

(* C7: the statements of a run execute in the order resolve, read, replace
   self_attn, replace encoder_attn, write, print; the confirmation line is
   printed once per completed run, only when the write is complete, and a run
   that failed at path resolution, read or write has printed nothing. *)
C7_LinearOrder ==
    /\ [][\A p \in DOMAIN pc :
             /\ pc'[p] # pc[p] => <<pc[p], pc'[p]>> \in StatementOrder
             /\ stdout'[p] # stdout[p] =>
                   /\ pc[p] = "print" /\ pc'[p] = "done"
                   /\ fs.data = content[p]
                   /\ stdout'[p] = Append(stdout[p], Confirmation(decoder_path[p]))
             /\ (pc[p] = "replace_self_attn" /\ pc'[p] # pc[p]) =>
                   content'[p] = Replace(content[p], old_self_attn, new_self_attn)
             /\ (pc[p] = "replace_encoder_attn" /\ pc'[p] # pc[p]) =>
                   content'[p] = Replace(content[p], old_encoder_attn, new_encoder_attn)
         ]_vars
    /\ [](Len(stdout[1]) = (runs - 1) + (IF Completed THEN 1 ELSE 0))

C7_Witness ==
    /\ Completed
    /\ runs = 1
    /\ Len(stdout[1]) = 1
    /\ fs.data = content[1]

(* C8: the text a run has written holds no occurrence of either old
   substring, whatever the input; neither new text holds an old substring. *)
C8_NoOldAfterRun ==
    /\ pc[1] \in {"print", "done"} =>
          /\ Occ(fs.data, old_self_attn) = {}
          /\ Occ(fs.data, old_encoder_attn) = {}
    /\ \A new \in {new_self_attn, new_encoder_attn, new_self_attn \o new_encoder_attn,
                   new_encoder_attn \o new_self_attn} :
          Occ(new, old_self_attn) = {} /\ Occ(new, old_encoder_attn) = {}

C8_Witness ==
    /\ Completed
    /\ runs = 1
    /\ Occ(Orig.data, old_self_attn) # {}
    /\ Occ(Orig.data, old_encoder_attn) # {}
    /\ Occ(fs.data, new_self_attn \o new_encoder_attn) # {}

(* C9 as claimed: when two concurrent invocations have both completed, the
   file holds what a single run on the original text produces. *)
C9_AnyInterleavingAsOneRun ==
    AllDone => fs.data = Patch(Orig.data)

(* C9 as amended: when two concurrent invocations have both completed, the
   file holds what a single run on the original text produces, or is empty;
   it is empty only when one invocation read the file between the other's
   truncation and write. *)
C9_AsOneRunUnlessTornRead ==
    AllDone =>
        /\ fs.data = Patch(Orig.data) \/ fs.data = ""
        /\ (\A p \in DOMAIN pc : ~torn[p]) => fs.data = Patch(Orig.data)

C9_Witness ==
    /\ AllDone
    /\ Cardinality(DOMAIN pc) = 2
    /\ \E p \in DOMAIN pc : torn[p]
    /\ Orig.data # ""
    /\ fs.data = ""

(* C10: the two rules are independent: a completed run, which applies the
   self_attn rule first, leaves the text that applying the encoder_attn rule
   first would leave; when only one of the old substrings occurs, only that
   rule's sites change. *)
C10_RulesIndependent ==
    Completed =>
        LET c == Cur.data
        IN  /\ fs.data = Replace(Replace(c, old_encoder_attn, new_encoder_attn),
                                 old_self_attn, new_self_attn)
            /\ Occ(c, old_encoder_attn) = {} =>
                  /\ fs.data = Replace(c, old_self_attn, new_self_attn)
                  /\ Count(fs.data, new_encoder_attn) = Count(c, new_encoder_attn)
                  /\ Count(c, old_self_attn) = 1 =>
                        fs.data = SpliceAt(c, The(Occ(c, old_self_attn)),
                                           old_self_attn, new_self_attn)
            /\ Occ(c, old_self_attn) = {} =>
                  /\ fs.data = Replace(c, old_encoder_attn, new_encoder_attn)
                  /\ Count(fs.data, new_self_attn) = Count(c, new_self_attn)
                  /\ Count(c, old_encoder_attn) = 1 =>
                        fs.data = SpliceAt(c, The(Occ(c, old_encoder_attn)),
                                           old_encoder_attn, new_encoder_attn)

C10_Witness ==
    /\ Completed
    /\ Occ(Cur.data, old_self_attn) = {}
    /\ Count(Cur.data, old_encoder_attn) = 1
    /\ Len(fs.data) = Len(Cur.data) + Len(new_encoder_attn) - Len(old_encoder_attn)

====
